---- MODULE Spec2Model ----
(***************************************************************************)
(* Model of the WebRTC signaling server (src/server.js).                   *)
(*                                                                         *)
(* State: the two application maps `rooms` and `users`, the transport's    *)
(* own room table (socket.rooms of every socket), the liveness of every    *)
(* transport session, the last inbound event and the outbound events its   *)
(* handler produced.  Every handler runs to completion (Node's single      *)
(* threaded event loop), so each handler is one atomic action.             *)
(*                                                                         *)
(* Identifiers: socket ids and room ids are strings in the program; both   *)
(* are drawn here from one space of naturals so that a room id chosen by   *)
(* a client may equal a socket id.  The opaque payloads (offer, answer,    *)
(* candidate, message text, timestamp) are forwarded untouched and are     *)
(* not part of the records.                                                *)
(***************************************************************************)
EXTENDS Naturals, FiniteSets

\* Bound of the model: the number of transport sessions live at one time.
MaxLive == 2

\* The ids the transport hands out; an id is used for one session only.
SocketIds == {1, 2, 3}
\* The room ids clients choose: 101 is a plain name, 3 equals a socket id.
RoomIds == {3, 101}
TargetIds == SocketIds \cup RoomIds
Usernames == {"alice", "bob"}

\* `users.get(id)?.username` of a missing entry.
Undefined == "undefined"
\* A payload without a username field.
NoField == "-"

VARIABLES
    live,        \* live[s]: "fresh" (not yet accepted), "live" or "closed"
    socketRooms, \* socketRooms[s]: socket.rooms, the transport rooms of s
    rooms,       \* the `rooms` Map: room id -> Set of socket ids
    users,       \* the `users` Map: socket id -> {username, roomId}
    exceptByRoom, \* the transport build: TRUE if a broadcast's exclusion of
                 \* the sender is by the room named by its id, FALSE if by id
    joined,      \* the sockets on which a join-room event has been processed
    known,       \* known[x]: the sockets x has been told of (users-in-room,
                 \* user-joined) since its latest join-room and has not
                 \* been told to have left (user-left)
    prevRoom,    \* the roomId of the `users` entry the joining socket had before
                 \* the last event, 0 if it had none or the event is no join-room
    lastEvent,   \* the inbound event processed last
    outbox       \* the outbound events emitted by its handler

vars == <<live, socketRooms, rooms, users, exceptByRoom, joined, known, prevRoom, lastEvent, outbox>>

----------------------------------------------------------------------------
\* Map helpers (JavaScript Map: has / set / delete).

MapHas(m, k) == k \in DOMAIN m

MapSet(m, k, v) == [x \in (DOMAIN m) \cup {k} |-> IF x = k THEN v ELSE m[x]]

MapDelete(m, k) == [x \in (DOMAIN m) \ {k} |-> m[x]]

EmptyMap == [x \in {} |-> 0]

\* An inbound event: kind, the socket it arrived on, and its roomId /
\* targetId / username fields (0 and NoField where the event has none).
\* For disconnect, roomId and username are the ones the handler reads from
\* the socket's `users` entry (lines 139-142), 0 and NoField without entry.
Event(kind, id, roomId, targetId, username) ==
    [kind |-> kind, id |-> id, roomId |-> roomId, targetId |-> targetId,
     username |-> username]

\* An outbound event delivered to socket `to`.
Msg(to, kind, id, username, list) ==
    [to |-> to, kind |-> kind, id |-> id, username |-> username, list |-> list]

----------------------------------------------------------------------------
\* Transport (socket.io) primitives used by the handlers.

\* The sockets currently subscribed to transport room `room`.
InRoom(sr, room) == {x \in SocketIds : room \in sr[x]}

\* Variant of BroadcastTo: the sender is not excluded.
BroadcastToAll(sr, s, room) == InRoom(sr, room)

\* socket.to(room): every socket in transport room `room`, except the
\* sender.  The transport library is not part of the repository and its
\* version is not fixed by it: socket.io 4 excludes the sockets in the room
\* named by the sender's id (the sender, and whoever joined a room of that
\* name), socket.io 3 excludes the sender's id alone.  Both are modelled.
BroadcastTo(sr, s, room) ==
    InRoom(sr, room) \ ((IF exceptByRoom THEN InRoom(sr, s) ELSE {}) \cup {s})

\* Lines 42-50: leave every transport room but the socket's own, join roomId.
JoinTransport(sr, s, roomId) ==
    [sr EXCEPT ![s] = {room \in @ : room = s} \cup {roomId}]

----------------------------------------------------------------------------
\* Pieces of the handlers.

\* Lines 55-61: create the room if absent and add the socket.
JoinRooms(rm, s, roomId) ==
    LET rm1 == IF ~MapHas(rm, roomId) THEN MapSet(rm, roomId, {}) ELSE rm
    IN  [rm1 EXCEPT ![roomId] = @ \cup {s}]

\* Line 53: users.set(socket.id, {username, roomId}).
JoinUsers(us, s, roomId, username) ==
    MapSet(us, s, [username |-> username, roomId |-> roomId])

\* users.get(id)?.username
UsernameOf(us, id) == IF MapHas(us, id) THEN us[id].username ELSE Undefined

\* Variant of OtherUsers: the joiner itself is not filtered out.
OtherUsersWithSelf(rm, us, s, roomId) ==
    {[id |-> i, username |-> UsernameOf(us, i)] : i \in rm[roomId]}

\* Lines 64-69: the other ids of the room with their usernames.
OtherUsers(rm, us, s, roomId) ==
    {[id |-> i, username |-> UsernameOf(us, i)] : i \in rm[roomId] \ {s}}

\* Variant of DisconnectRooms: the room is dropped although members remain.
DisconnectRoomsDropsRoom(rm, s, roomId) ==
    IF MapHas(rm, roomId) THEN MapDelete(rm, roomId) ELSE rm

\* Variant of DisconnectRooms: the emptied room is not dropped.
DisconnectRoomsKeepsEmpty(rm, s, roomId) ==
    IF MapHas(rm, roomId) THEN [rm EXCEPT ![roomId] = @ \ {s}] ELSE rm

\* Lines 145-152: remove the socket from its room, drop the room if empty.
DisconnectRooms(rm, s, roomId) ==
    IF MapHas(rm, roomId)
    THEN LET rm1 == [rm EXCEPT ![roomId] = @ \ {s}]
         IN  IF Cardinality(rm1[roomId]) = 0 THEN MapDelete(rm1, roomId) ELSE rm1
    ELSE rm

\* Variant of DisconnectUsers: the entry of the closed socket is kept.
DisconnectUsersKeepsEntry(us, s) == us

\* Line 164: users.delete(socket.id).
DisconnectUsers(us, s) == MapDelete(us, s)

\* Lines 26-32: the counters of the status page.
activeRooms == Cardinality(DOMAIN rooms)
activeUsers == Cardinality(DOMAIN users)

----------------------------------------------------------------------------
LiveSockets == {s \in SocketIds : live[s] = "live"}

Init ==
    /\ live = [s \in SocketIds |-> "fresh"]
    /\ socketRooms = [s \in SocketIds |-> {}]
    /\ rooms = EmptyMap
    /\ users = EmptyMap
    /\ exceptByRoom \in BOOLEAN
    /\ joined = {}
    /\ known = [s \in SocketIds |-> {}]
    /\ prevRoom = 0
    /\ lastEvent = Event("none", 0, 0, 0, NoField)
    /\ outbox = {}

\* io.on('connection'): the transport accepts a session; the socket is in
\* the transport room named by its own id.
Connection(s) ==
    /\ live[s] = "fresh"
    /\ Cardinality(LiveSockets) < MaxLive
    /\ live' = [live EXCEPT ![s] = "live"]
    /\ socketRooms' = [socketRooms EXCEPT ![s] = {s}]
    /\ lastEvent' = Event("connection", s, 0, 0, NoField)
    /\ outbox' = {}
    /\ prevRoom' = 0
    /\ UNCHANGED <<rooms, users, exceptByRoom, joined, known>>

\* socket.on('join-room')
JoinRoom(s, roomId, username) ==
    /\ live[s] = "live"
    /\ socketRooms' = JoinTransport(socketRooms, s, roomId)
    /\ users' = JoinUsers(users, s, roomId, username)
    /\ rooms' = JoinRooms(rooms, s, roomId)
    /\ outbox' =
         {Msg(s, "users-in-room", 0, NoField, OtherUsers(rooms', users', s, roomId))}
         \cup {Msg(x, "user-joined", s, username, {}) :
                 x \in BroadcastTo(socketRooms', s, roomId)}
    /\ joined' = joined \cup {s}
    /\ known' = [x \in SocketIds |->
                   IF x = s THEN {e.id : e \in OtherUsers(rooms', users', s, roomId)}
                   ELSE IF x \in BroadcastTo(socketRooms', s, roomId)
                        THEN known[x] \cup {s}
                        ELSE known[x]]
    /\ prevRoom' = IF MapHas(users, s) THEN users[s].roomId ELSE 0
    /\ lastEvent' = Event("join-room", s, roomId, 0, username)
    /\ UNCHANGED <<live, exceptByRoom>>

\* Variant of Offer: an offer of a socket without `users` entry is dropped.
OfferDropsUnjoined(s, targetId) ==
    /\ live[s] = "live"
    /\ outbox' = IF ~MapHas(users, s) THEN {}
                 ELSE {Msg(x, "offer", s, UsernameOf(users, s), {}) :
                         x \in BroadcastTo(socketRooms, s, targetId)}
    /\ lastEvent' = Event("offer", s, 0, targetId, NoField)
    /\ prevRoom' = 0
    /\ UNCHANGED <<live, socketRooms, rooms, users, exceptByRoom, joined, known>>

\* Variant of Offer: the handler stores an entry for a sender that has none.
OfferRegistersSender(s, targetId) ==
    /\ live[s] = "live"
    /\ outbox' = {Msg(x, "offer", s, UsernameOf(users, s), {}) :
                    x \in BroadcastTo(socketRooms, s, targetId)}
    /\ lastEvent' = Event("offer", s, 0, targetId, NoField)
    /\ prevRoom' = 0
    /\ users' = IF MapHas(users, s) THEN users
                ELSE MapSet(users, s, [username |-> Undefined, roomId |-> 0])
    /\ UNCHANGED <<live, socketRooms, rooms, exceptByRoom, joined, known>>

\* socket.on('offer')
Offer(s, targetId) ==
    /\ live[s] = "live"
    /\ outbox' = {Msg(x, "offer", s, UsernameOf(users, s), {}) :
                    x \in BroadcastTo(socketRooms, s, targetId)}
    /\ lastEvent' = Event("offer", s, 0, targetId, NoField)
    /\ prevRoom' = 0
    /\ UNCHANGED <<live, socketRooms, rooms, users, exceptByRoom, joined, known>>

\* socket.on('answer')
Answer(s, targetId) ==
    /\ live[s] = "live"
    /\ outbox' = {Msg(x, "answer", s, UsernameOf(users, s), {}) :
                    x \in BroadcastTo(socketRooms, s, targetId)}
    /\ lastEvent' = Event("answer", s, 0, targetId, NoField)
    /\ prevRoom' = 0
    /\ UNCHANGED <<live, socketRooms, rooms, users, exceptByRoom, joined, known>>

\* socket.on('ice-candidate')
IceCandidate(s, targetId) ==
    /\ live[s] = "live"
    /\ outbox' = {Msg(x, "ice-candidate", s, NoField, {}) :
                    x \in BroadcastTo(socketRooms, s, targetId)}
    /\ lastEvent' = Event("ice-candidate", s, 0, targetId, NoField)
    /\ prevRoom' = 0
    /\ UNCHANGED <<live, socketRooms, rooms, users, exceptByRoom, joined, known>>

\* socket.on('message')
Message(s) ==
    /\ live[s] = "live"
    /\ outbox' =
         IF ~MapHas(users, s) THEN {}
         ELSE {Msg(x, "message", s, users[s].username, {}) :
                 x \in BroadcastTo(socketRooms, s, users[s].roomId)}
    /\ lastEvent' = Event("message", s, 0, 0, NoField)
    /\ prevRoom' = 0
    /\ UNCHANGED <<live, socketRooms, rooms, users, exceptByRoom, joined, known>>

\* The body of the disconnect handler (lines 139-164), run for socket s
\* when the transport rooms are sr.
OnDisconnect(s, sr) ==
    /\ rooms' = IF MapHas(users, s)
                THEN DisconnectRooms(rooms, s, users[s].roomId)
                ELSE rooms
    /\ outbox' =
         IF MapHas(users, s)
         THEN {Msg(x, "user-left", s, users[s].username, {}) :
                 x \in BroadcastTo(sr, s, users[s].roomId)}
         ELSE {}
    /\ users' = DisconnectUsers(users, s)
    /\ lastEvent' = IF MapHas(users, s)
                    THEN Event("disconnect", s, users[s].roomId, 0, users[s].username)
                    ELSE Event("disconnect", s, 0, 0, NoField)
    /\ known' = [x \in SocketIds |->
                   IF x = s THEN {}
                   ELSE IF MapHas(users, s) /\ x \in BroadcastTo(sr, s, users[s].roomId)
                        THEN known[x] \ {s}
                        ELSE known[x]]
    /\ prevRoom' = 0

\* socket.on('disconnect'): the transport has already taken the socket out
\* of all its rooms when the handler runs.
Disconnect(s) ==
    /\ live[s] = "live"
    /\ live' = [live EXCEPT ![s] = "closed"]
    /\ socketRooms' = [socketRooms EXCEPT ![s] = {}]
    /\ OnDisconnect(s, socketRooms')
    /\ UNCHANGED <<exceptByRoom, joined>>

\* The disconnect handler invoked once more for a session already closed.
\* The transport emits disconnect once per socket; this step exists only in
\* SpecReclose, to examine the handler under a repeated close.
DisconnectAgain(s) ==
    /\ live[s] = "closed"
    /\ OnDisconnect(s, socketRooms)
    /\ UNCHANGED <<live, socketRooms, exceptByRoom, joined>>

Next ==
    \/ \E s \in SocketIds : Connection(s)
    \/ \E s \in SocketIds, roomId \in RoomIds, username \in Usernames :
          JoinRoom(s, roomId, username)
    \/ \E s \in SocketIds, targetId \in TargetIds : Offer(s, targetId)
    \/ \E s \in SocketIds, targetId \in TargetIds : Answer(s, targetId)
    \/ \E s \in SocketIds, targetId \in TargetIds : IceCandidate(s, targetId)
    \/ \E s \in SocketIds : Message(s)
    \/ \E s \in SocketIds : Disconnect(s)

Spec == Init /\ [][Next]_vars

NextReclose ==
    \/ Next
    \/ \E s \in SocketIds : DisconnectAgain(s)

SpecReclose == Init /\ [][NextReclose]_vars

----------------------------------------------------------------------------
\* Vocabulary of the properties.

\* Socket x is live and its latest join-room named room r.
Joined(x, r) == live[x] = "live" /\ MapHas(users, x) /\ users[x].roomId = r

\* The rooms of the registry whose member set holds socket x.
RoomsOf(x) == {r \in DOMAIN rooms : x \in rooms[r]}

\* The sockets the last handler delivered an event of kind k to.
Recipients(k) == {m.to : m \in {n \in outbox : n.kind = k}}

RelayKinds == {"offer", "answer", "ice-candidate"}

\* The users-in-room lists the last handler delivered to socket x.
UsersInRoomLists(x) ==
    {m.list : m \in {n \in outbox : n.kind = "users-in-room" /\ n.to = x}}

----------------------------------------------------------------------------
\* C1 - Single-room invariant: after a join-room is processed, the joining
\* socket's id is in the member set of exactly one room of `rooms`, the room
\* just joined.
SingleRoomInvariant ==
    lastEvent.kind = "join-room" => RoomsOf(lastEvent.id) = {lastEvent.roomId}

\* C2 - Membership-to-directory consistency: every member of every room of
\* `rooms` has a `users` entry whose roomId is that room.
MembershipToDirectory ==
    \A r \in DOMAIN rooms : \A c \in rooms[r] :
        MapHas(users, c) /\ users[c].roomId = r

\* C3 - Room self-cleanup: a room id no live socket is currently joined to
\* is absent from `rooms`, and a socket joining a room that nobody else is
\* currently joined to receives an empty users-in-room list.
RoomSelfCleanup ==
    /\ \A r \in RoomIds :
          (\A x \in SocketIds : ~Joined(x, r)) => ~MapHas(rooms, r)
    /\ (/\ lastEvent.kind = "join-room"
        /\ \A x \in SocketIds \ {lastEvent.id} : ~Joined(x, lastEvent.roomId))
       => UsersInRoomLists(lastEvent.id) = {{}}

\* C4 - The users-in-room list sent to the joiner of room R holds exactly one
\* entry, with the current username, for every other socket currently joined
\* to R, and no other entry.
UsersInRoomExact ==
    lastEvent.kind = "join-room" =>
        UsersInRoomLists(lastEvent.id) =
            {{[id |-> x, username |-> users[x].username] :
                x \in {y \in SocketIds \ {lastEvent.id} : Joined(y, lastEvent.roomId)}}}

\* C5 - Implicit leave on room switch: when a socket joined to room R
\* processes join-room for another room id, it is removed from R's member
\* set and user-left with its id is delivered to every socket remaining in R.
ImplicitLeaveStep ==
    \A s \in SocketIds : \A R \in RoomIds :
        (/\ Joined(s, R)
         /\ lastEvent'.kind = "join-room"
         /\ lastEvent'.id = s
         /\ lastEvent'.roomId # R)
        => /\ MapHas(rooms', R) => s \notin rooms'[R]
           /\ \A x \in SocketIds \ {s} :
                 Joined(x, R) =>
                    \E m \in outbox' : m.to = x /\ m.kind = "user-left" /\ m.id = s

ImplicitLeave == [][ImplicitLeaveStep]_vars

\* C6 - Directory-to-membership consistency: for every `users` entry with
\* roomId r, room r exists in `rooms` and its member set holds that socket.
DirectoryToMembership ==
    \A c \in DOMAIN users :
        MapHas(rooms, users[c].roomId) /\ c \in rooms[users[c].roomId]

\* A socket has just left, by disconnect, a room in which another socket
\* with a `users` entry stays.
DirectoryToMembershipWitness ==
    /\ lastEvent.kind = "disconnect"
    /\ \E c \in DOMAIN users :
          /\ users[c].roomId = lastEvent.roomId
          /\ c \in Recipients("user-left")

\* C7 - No empty room: every room id present in `rooms` has a non-empty
\* member set.
NoEmptyRoom == \A r \in DOMAIN rooms : rooms[r] # {}

\* The last member of a room has just disconnected while another room
\* still exists.
NoEmptyRoomWitness ==
    /\ lastEvent.kind = "disconnect"
    /\ lastEvent.roomId # 0
    /\ ~MapHas(rooms, lastEvent.roomId)
    /\ DOMAIN rooms # {}

\* C8 as stated - Liveness of directory entries: a socket id has a `users`
\* entry if and only if its session is live, joined or not, so that the
\* reported user count is the number of live sessions.
DirectoryIffLive ==
    /\ \A s \in SocketIds : MapHas(users, s) <=> live[s] = "live"
    /\ activeUsers = Cardinality(LiveSockets)

\* C8 as amended - a socket id has a `users` entry if and only if its session
\* is live and a join-room event of it has been processed; the reported user
\* count is the number of such sessions.
DirectoryIffLiveAndJoined ==
    /\ \A s \in SocketIds : MapHas(users, s) <=> (live[s] = "live" /\ s \in joined)
    /\ activeUsers = Cardinality(LiveSockets \cap joined)

\* A live socket that has not joined, a live socket that has, and a closed
\* socket that had joined.
DirectoryIffLiveAndJoinedWitness ==
    /\ \E s \in SocketIds : live[s] = "live" /\ s \notin joined
    /\ \E s \in SocketIds : live[s] = "live" /\ s \in joined
    /\ \E s \in SocketIds : live[s] = "closed" /\ s \in joined

\* C9 - No leak at quiescence: when every accepted session has been closed,
\* `users` and `rooms` are empty (both status counters are 0).
NoLeakAtQuiescence ==
    (/\ \E s \in SocketIds : live[s] = "closed"
     /\ \A s \in SocketIds : live[s] # "live")
    => activeUsers = 0 /\ activeRooms = 0

\* C10 - Unicast addressing: an offer, answer or ice-candidate with target
\* identifier t is received by nobody or by the socket whose id is t alone.
UnicastAddressing ==
    lastEvent.kind \in RelayKinds =>
        Recipients(lastEvent.kind) \subseteq {lastEvent.targetId}

\* C11 - Message recipient set: a message of a joined socket is delivered to
\* exactly the other sockets currently joined to the sender's room, and a
\* message of a socket that has not joined produces no outbound event.
MessageRecipients ==
    lastEvent.kind = "message" =>
        IF MapHas(users, lastEvent.id)
        THEN Recipients("message") =
               {x \in SocketIds \ {lastEvent.id} : Joined(x, users[lastEvent.id].roomId)}
        ELSE outbox = {}

\* C12 - Close notification: when a socket joined to room R closes, user-left
\* with its id and the username of its entry is delivered to the sockets
\* still joined to R and to nobody else; when a socket that has not joined
\* closes, nothing is sent.
CloseNotification ==
    lastEvent.kind = "disconnect" =>
        IF lastEvent.roomId # 0
        THEN outbox = {Msg(x, "user-left", lastEvent.id, lastEvent.username, {}) :
                         x \in {y \in SocketIds : Joined(y, lastEvent.roomId)}}
        ELSE outbox = {}

\* C13 as stated - Relay precondition: an offer, answer or ice-candidate of a
\* socket that has never sent join-room delivers no outbound event.
NoRelayFromUnjoined ==
    (lastEvent.kind \in RelayKinds /\ lastEvent.id \notin joined) => outbox = {}

\* C13 as amended - an offer, answer or ice-candidate of a socket that has
\* never sent join-room is relayed: when the target is the id of another live
\* socket (one that has not joined a room named by the sender's id), that
\* socket receives the event with the sender's id and no username.
RelayFromUnjoined ==
    (/\ lastEvent.kind \in RelayKinds
     /\ lastEvent.id \notin joined
     /\ lastEvent.targetId \in SocketIds \ {lastEvent.id}
     /\ live[lastEvent.targetId] = "live"
     /\ lastEvent.id \notin socketRooms[lastEvent.targetId])
    => Msg(lastEvent.targetId, lastEvent.kind, lastEvent.id,
           IF lastEvent.kind = "ice-candidate" THEN NoField ELSE Undefined, {})
         \in outbox

\* An offer of a socket that has not joined has reached its live target.
RelayFromUnjoinedWitness ==
    /\ lastEvent.kind = "offer"
    /\ lastEvent.id \notin joined
    /\ lastEvent.targetId \in SocketIds
    /\ live[lastEvent.targetId] = "live"
    /\ Recipients("offer") = {lastEvent.targetId}

\* C14 - Broadcast exclusion: no user-joined, user-left or message broadcast
\* is delivered to the socket whose event caused it.
BroadcastExclusion ==
    \A m \in outbox :
        m.kind \in {"user-joined", "user-left", "message"} => m.to # lastEvent.id

\* A socket has re-joined the room it was in, and the other member has been
\* sent user-joined.
BroadcastExclusionWitness ==
    /\ lastEvent.kind = "join-room"
    /\ prevRoom = lastEvent.roomId
    /\ Recipients("user-joined") # {}

\* C15 - Snapshot exclusion: the users-in-room list delivered to a joiner
\* never holds the joiner's own id.
SnapshotExclusion ==
    \A m \in outbox :
        m.kind = "users-in-room" => \A e \in m.list : e.id # m.to

\* A socket has re-joined the room it was in and has received a non-empty
\* list.
SnapshotExclusionWitness ==
    /\ lastEvent.kind = "join-room"
    /\ prevRoom = lastEvent.roomId
    /\ UsersInRoomLists(lastEvent.id) # {{}}

\* C16 - Idempotent disconnect: the disconnect handler run a second time for
\* a socket, or run for a socket that never joined, delivers nothing and
\* leaves `users` and `rooms` as they were.
IdempotentDisconnectStep ==
    \A s \in SocketIds :
        (/\ lastEvent'.kind = "disconnect"
         /\ lastEvent'.id = s
         /\ (live[s] = "closed" \/ s \notin joined))
        => outbox' = {} /\ users' = users /\ rooms' = rooms

IdempotentDisconnect == [][IdempotentDisconnectStep]_vars

\* The handler has run again for a closed socket that had joined a room,
\* while another room entry exists.
IdempotentDisconnectWitness ==
    /\ lastEvent.kind = "disconnect"
    /\ lastEvent.id \in joined
    /\ lastEvent.roomId = 0
    /\ DOMAIN users # {}

\* C17 - Best-effort unicast: an offer, answer or ice-candidate whose target
\* is not the id of a live socket is delivered to nobody.
BestEffortUnicast ==
    (/\ lastEvent.kind \in RelayKinds
     /\ ~(lastEvent.targetId \in SocketIds /\ live[lastEvent.targetId] = "live"))
    => outbox = {}

\* C18 - Two views of membership agree: for every room id, the member set
\* stored in `rooms` (empty if absent) is the set of sockets subscribed to
\* the transport room of that id.  Stated for the room ids that are no
\* socket id: the transport room named by a socket id holds that socket
\* from its connection on, before any join-room.
TwoViewsAgree ==
    \A r \in RoomIds \ SocketIds :
        (IF MapHas(rooms, r) THEN rooms[r] ELSE {}) = InRoom(socketRooms, r)

\* C19 - Mutual discovery: whenever two distinct live sockets are both
\* currently joined to the same room, both ids are in that room's member set
\* and each has been told of the other since its own latest join.
MutualDiscovery ==
    \A a \in SocketIds : \A b \in SocketIds \ {a} : \A r \in RoomIds :
        (Joined(a, r) /\ Joined(b, r)) =>
            /\ MapHas(rooms, r) /\ {a, b} \subseteq rooms[r]
            /\ b \in known[a]
            /\ a \in known[b]

\* C20 - Relays are stateless: an offer, answer, ice-candidate or message
\* event leaves `users` and `rooms` unchanged.
RelaysStatelessStep ==
    lastEvent'.kind \in RelayKinds \cup {"message"} =>
        users' = users /\ rooms' = rooms

RelaysStateless == [][RelaysStatelessStep]_vars

\* An offer of a socket without `users` entry has been delivered while a
\* room exists.
RelaysStatelessWitness ==
    /\ lastEvent.kind = "offer"
    /\ ~MapHas(users, lastEvent.id)
    /\ outbox # {}
    /\ DOMAIN rooms # {}

====
